---- MODULE Spec2Model ----
(***************************************************************************)
(* Model of the meetup site (src/meetup.js): the registrations table, the  *)
(* snapshot reader getAllRegistrations, the submission handler and the     *)
(* Server-Sent-Events session created by handleSSEUpdates; the request     *)
(* handler, getSpeakers, the page's EventSource script, and the handler of *)
(* the template (src/val-template.js).                                     *)
(*                                                                         *)
(* Every sqlite.execute is an await: a statement is first sent, then       *)
(* executed by the store, then its reply resumes the caller.  Replies of   *)
(* different callers may arrive in any order.  setInterval fires its       *)
(* callback whether or not an earlier callback has finished.               *)
(***************************************************************************)
EXTENDS Integers, Sequences, FiniteSets, TLC

VARIABLES table, now, session, calls, last, accepted, init, table0, speakers, client

\* last: the last submission answered, with its response
\* accepted: the bodies of the submissions answered 200, in order
\* init: the initializeDatabase calls; table0: the table they started from
\* speakers: the getSpeakers call
\* client: the page's script and its EventSource objects
vars == <<table, now, session, calls, last, accepted, init, table0, speakers, client>>

otherVars == <<last, accepted, init, table0, speakers, client>>

\* the variables of the server
serverVars == <<table, now, session, calls, last, accepted, init, table0, speakers>>

----------------------------------------------------------------------------
(* Bounds *)

\* timer firings followed per session
MaxFires == 2
\* rows inserted
MaxRows == 1
\* disconnect signals delivered to one session
MaxCancels == 2
\* initializeDatabase calls made by one caller
MaxInitCalls == 2
\* getSpeakers calls
MaxSpeakerCalls == 2
\* seconds the store clock advances
MaxClock == 1
\* rows inserted while the clock runs
MaxOrderRows == 2
\* connection errors the page meets
MaxErrors == 3
\* messages one EventSource receives
MaxMessages == 2

Sessions == {"s1", "s2"}
\* the sessions opened under Spec
SoloSessions == {"s1"}
\* call 0 is the initial send of start, call k > 0 the k-th timer callback
CallIds == 0..MaxFires
TickIds == 1..MaxFires

Null == "null"

----------------------------------------------------------------------------
(* The store: one table *)

AllColumns == <<"id", "timestamp", "name", "email", "is_speaker", "topic", "profile_pic">>

Range(f) == {f[i] : i \in DOMAIN f}

\* PRAGMA table_info(registrations): one row per column, none for a missing table
PragmaTableInfo(t) == IF t.exists THEN t.columns ELSE <<>>

\* the orders ORDER BY timestamp DESC allows (rows of one second in any order)
SelectOrders(rows) ==
  {p \in [1..Len(rows) -> 1..Len(rows)] :
     /\ \A i, j \in 1..Len(rows) : i # j => p[i] # p[j]
     /\ \A i, j \in 1..Len(rows) : i < j => rows[p[i]].timestamp >= rows[p[j]].timestamp}

\* SELECT <cols> FROM registrations ORDER BY timestamp DESC, rows in order p
SelectRows(t, cols, p) ==
  IF ~t.exists \/ ~(Range(cols) \subseteq Range(t.columns))
  THEN [ok |-> FALSE, rows |-> <<>>]
  ELSE [ok |-> TRUE,
        rows |-> [i \in 1..Len(t.rows) |-> [c \in 1..Len(cols) |-> t.rows[p[i]][cols[c]]]]]

\* INSERT INTO registrations (name, email, is_speaker, topic, profile_pic)
InsertColumns == {"name", "email", "is_speaker", "topic", "profile_pic"}

InsertOk(t, args) ==
  /\ t.exists
  /\ InsertColumns \subseteq Range(t.columns)
  /\ args.name # Null
  /\ args.email # Null

\* InsertRow as INSERT OR REPLACE of the only row
InsertRowReplacing(t, args, ts) ==
  [t EXCEPT !.rows =
     <<[c \in Range(t.columns) |->
          CASE c = "id" -> Len(t.rows) + 1
            [] c = "timestamp" -> ts
            [] OTHER -> args[c]]>>]

InsertRow(t, args, ts) ==
  [t EXCEPT !.rows = Append(@,
     [c \in Range(t.columns) |->
        CASE c = "id" -> Len(t.rows) + 1
          [] c = "timestamp" -> ts
          [] OTHER -> args[c]])]

----------------------------------------------------------------------------
(* initializeDatabase: each step is one statement executed by the store and *)
(* the caller running on to its next await                                  *)

\* the requests (callers) that run initializeDatabase
InitCallers == {"a", "b"}
\* the caller of the sequential specification
SeqCallers == {"a"}

BaseColumns == <<"id", "timestamp", "name", "email">>
\* the columns initializeDatabase adds, in the order it tries them
AlterOrder == <<"topic", "is_speaker", "profile_pic">>

FullColumns(t) == t.exists /\ Range(t.columns) = Range(AllColumns)

\* CREATE TABLE IF NOT EXISTS registrations (...)
CreateTable(t) ==
  IF t.exists THEN t ELSE [exists |-> TRUE, columns |-> AllColumns, rows |-> <<>>]

\* ALTER TABLE ... ADD COLUMN is_speaker BOOLEAN DEFAULT 0; topic, profile_pic TEXT
ColumnDefault(c) == IF c = "is_speaker" THEN 0 ELSE Null

\* ADD COLUMN fails on a missing table and on a column that exists
AlterOk(t, c) == t.exists /\ c \notin Range(t.columns)

\* AddColumn losing the rows of the table
AddColumnLosingRows(t, c) == [t EXCEPT !.columns = Append(@, c), !.rows = <<>>]

AddColumn(t, c) ==
  [t EXCEPT !.columns = Append(@, c),
            !.rows = [i \in DOMAIN @ |->
                        [k \in DOMAIN @[i] \cup {c} |->
                           IF k = c THEN ColumnDefault(c) ELSE @[i][k]]]]

\* NextAlter giving up after the first column it adds
NextAlterOnce(columns, i) ==
  IF i = 1 /\ \E j \in 1..Len(AlterOrder) : AlterOrder[j] \notin Range(columns)
  THEN AlterOrder[CHOOSE j \in 1..Len(AlterOrder) :
                    /\ AlterOrder[j] \notin Range(columns)
                    /\ \A h \in 1..(j - 1) : AlterOrder[h] \in Range(columns)]
  ELSE "returned"

\* NextAlter without the columns.includes tests
NextAlterUnchecked(columns, i) ==
  IF i <= Len(AlterOrder) THEN AlterOrder[i] ELSE "returned"

\* the next ALTER to issue from position i of AlterOrder, given the PRAGMA columns
NextAlter(columns, i) ==
  IF \E j \in i..Len(AlterOrder) : AlterOrder[j] \notin Range(columns)
  THEN AlterOrder[CHOOSE j \in i..Len(AlterOrder) :
                    /\ AlterOrder[j] \notin Range(columns)
                    /\ \A h \in i..(j - 1) : AlterOrder[h] \in Range(columns)]
  ELSE "returned"

AlterIndex(c) == CHOOSE j \in 1..Len(AlterOrder) : AlterOrder[j] = c

\* one caller: n calls begun; in the current call: columns read by the PRAGMA,
\* writes (CREATE, ALTER) issued, caught (the catch ran), fullAtStart, routed
\* (the request handler went on to its switch); spont: a
\* statement of some call was failed by the store itself; first: the table and
\* spont when the first call returned
IdleInit ==
  [pc |-> "idle", n |-> 0, columns |-> <<>>, writes |-> 0, caught |-> FALSE,
   spont |-> FALSE, threw |-> FALSE, fullAtStart |-> FALSE, routed |-> FALSE,
   first |-> [exists |-> FALSE, columns |-> <<>>, spont |-> FALSE]]

\* the call returns (normally or from its catch)
InitReturn(c, t) ==
  [c EXCEPT !.pc = "returned",
            !.first = IF c.n = 1
                      THEN [exists |-> t.exists, columns |-> t.columns, spont |-> c.spont]
                      ELSE @]

\* InitCatch throwing the error again
InitCatchRethrow(c, t, byStore) ==
  InitReturn([c EXCEPT !.caught = TRUE, !.spont = @ \/ byStore, !.threw = TRUE], t)

\* catch (error): console.error, and the call returns
InitCatch(c, t, byStore) ==
  InitReturn([c EXCEPT !.caught = TRUE, !.spont = @ \/ byStore], t)

\* the call moves to pc; an ALTER or CREATE is a write
InitGoto(c, t, pc) ==
  IF pc = "returned" THEN InitReturn(c, t)
  ELSE [c EXCEPT !.pc = pc, !.writes = IF pc = "pragma" THEN @ ELSE @ + 1]

----------------------------------------------------------------------------
(* getAllRegistrations: PRAGMA, then a SELECT built from the columns found *)

\* SelectColumnsFor pushing profile_pic before topic
SelectColumnsPicFirst(columns) ==
  <<"id", "name", "email">>
    \o (IF "is_speaker" \in Range(columns) THEN <<"is_speaker">> ELSE <<>>)
    \o (IF "profile_pic" \in Range(columns) THEN <<"profile_pic">> ELSE <<>>)
    \o (IF "topic" \in Range(columns) THEN <<"topic">> ELSE <<>>)

SelectColumnsFor(columns) ==
  <<"id", "name", "email">>
    \o (IF "is_speaker" \in Range(columns) THEN <<"is_speaker">> ELSE <<>>)
    \o (IF "topic" \in Range(columns) THEN <<"topic">> ELSE <<>>)
    \o (IF "profile_pic" \in Range(columns) THEN <<"profile_pic">> ELSE <<>>)

\* RowToRegistration reading topic and profile_pic one position early
RowToRegistrationEarly(row, columns) ==
  [f \in {"id", "name", "email"} \cup (Range(columns) \cap {"is_speaker", "topic", "profile_pic"}) |->
     CASE f = "id" -> row[1]
       [] f = "name" -> row[2]
       [] f = "email" -> row[3]
       [] f = "is_speaker" -> (row[4] = 1)
       [] f = "topic" -> row[3]
       [] f = "profile_pic" -> row[Len(row) - 1]]

\* result.rows.map(row => ...): the fields are read by position, idx++
RowToRegistration(row, columns) ==
  LET hasS == "is_speaker" \in Range(columns)
      hasT == "topic" \in Range(columns)
      hasP == "profile_pic" \in Range(columns)
      iS == 4
      iT == iS + (IF hasS THEN 1 ELSE 0)
      iP == iT + (IF hasT THEN 1 ELSE 0)
  IN [f \in {"id", "name", "email"}
              \cup (IF hasS THEN {"is_speaker"} ELSE {})
              \cup (IF hasT THEN {"topic"} ELSE {})
              \cup (IF hasP THEN {"profile_pic"} ELSE {}) |->
        CASE f = "id" -> row[1]
          [] f = "name" -> row[2]
          [] f = "email" -> row[3]
          [] f = "is_speaker" -> (row[iS] = 1)
          [] f = "topic" -> row[iT]
          [] f = "profile_pic" -> row[iP]]

\* MapRows without the last row of the result
MapRowsShort(rows, columns) ==
  [i \in 1..(Len(rows) - 1) |-> RowToRegistration(rows[i], columns)]

MapRows(rows, columns) == [i \in 1..Len(rows) |-> RowToRegistration(rows[i], columns)]

\* GetAllCatch throwing the error again
GetAllCatchRethrow == [threw |-> TRUE, value |-> <<>>]

\* the catch of getAllRegistrations: every failure becomes an empty list
GetAllCatch == [threw |-> FALSE, value |-> <<>>]

\* the value getAllRegistrations returns once its SELECT has been answered
GetAllReturn(res, columns) ==
  IF res.ok THEN [threw |-> FALSE, value |-> MapRows(res.rows, columns)] ELSE GetAllCatch

NoRes == [ok |-> TRUE, rows |-> <<>>]

\* one getAllRegistrations call of a session, and what its caller did with the
\* result; raced: the columns had changed between its PRAGMA and its SELECT
IdleCall == [phase |-> "idle", columns |-> <<>>, res |-> NoRes, err |-> FALSE,
             ret |-> [threw |-> FALSE, value |-> <<>>], outcome |-> "none",
             raced |-> FALSE]

InFlight(c) == c.phase \in {"pragma", "pragmaRes", "select", "selectRes"}

----------------------------------------------------------------------------
(* getSpeakers: PRAGMA, then the speaker SELECT when the columns are there *)

\* MissingSpeakerColumns testing topic only
MissingSpeakerColumnsTopicOnly(columns) == "topic" \notin Range(columns)

\* !columns.includes('topic') || !columns.includes('is_speaker')
MissingSpeakerColumns(columns) ==
  "topic" \notin Range(columns) \/ "is_speaker" \notin Range(columns)

SpeakerColumnsFor(columns) ==
  <<"id", "name">>
    \o (IF "topic" \in Range(columns) THEN <<"topic">> ELSE <<>>)
    \o (IF "profile_pic" \in Range(columns) THEN <<"profile_pic">> ELSE <<>>)

IsSpeakerRow(r) == r.is_speaker = 1

\* SELECT <cols> FROM registrations WHERE is_speaker = 1 ORDER BY timestamp DESC
SelectSpeakers(t, cols, p) ==
  IF ~t.exists \/ ~((Range(cols) \cup {"is_speaker"}) \subseteq Range(t.columns))
  THEN [ok |-> FALSE, rows |-> <<>>]
  ELSE LET found == SelectSeq(t.rows, IsSpeakerRow)
       IN [ok |-> TRUE,
           rows |-> [i \in 1..Len(found) |-> [c \in 1..Len(cols) |-> found[p[i]][cols[c]]]]]

\* the orders the speaker SELECT may answer in
SpeakerOrders(t) ==
  IF t.exists /\ "is_speaker" \in Range(t.columns)
  THEN SelectOrders(SelectSeq(t.rows, IsSpeakerRow))
  ELSE SelectOrders(<<>>)

\* result.rows.map(row => ...) of getSpeakers
RowToSpeaker(row, columns) ==
  LET hasT == "topic" \in Range(columns)
      hasP == "profile_pic" \in Range(columns)
      iT == 3
      iP == iT + (IF hasT THEN 1 ELSE 0)
  IN [f \in {"id", "name"}
              \cup (IF hasT THEN {"topic"} ELSE {})
              \cup (IF hasP THEN {"profile_pic"} ELSE {}) |->
        CASE f = "id" -> row[1]
          [] f = "name" -> row[2]
          [] f = "topic" -> row[iT]
          [] f = "profile_pic" -> row[iP]]

\* the table is missing or predates the topic or the is_speaker column
LacksSpeakerColumns(t) ==
  ~t.exists \/ ~({"topic", "is_speaker"} \subseteq Range(t.columns))

\* the catch of getSpeakers
SpeakersCatch == [threw |-> FALSE, value |-> <<>>]

\* the getSpeakers call: n calls begun; columns the PRAGMA reported; lacked:
\* the schema it was read from lacked topic or is_speaker; selects issued;
\* ret: the value returned; err: a statement failed
IdleSpeakers ==
  [pc |-> "idle", n |-> 0, columns |-> <<>>, lacked |-> FALSE, selects |-> 0,
   ret |-> [threw |-> FALSE, value |-> <<>>], err |-> FALSE]

----------------------------------------------------------------------------
(* handleRegistrationSubmission *)

StrTruthy(v) == v \notin {"", Null}

\* topic || null, profile_pic || null
OrNull(v) == IF StrTruthy(v) THEN v ELSE Null

InsertArgs(body) ==
  [name |-> body.name, email |-> body.email,
   is_speaker |-> IF body.is_speaker THEN 1 ELSE 0,
   topic |-> OrNull(body.topic), profile_pic |-> OrNull(body.profile_pic)]

Response(st, txt) == [status |-> st, text |-> txt, threw |-> FALSE]

\* ReachesInsert without the test of email
ReachesInsertNameOnly(req) ==
  /\ req.method = "POST"
  /\ req.json /\ req.object
  /\ StrTruthy(req.body.name)
  /\ ~(req.body.is_speaker /\ ~StrTruthy(req.body.topic))

\* ReachesInsert without the test of the topic of a speaker
ReachesInsertAnyTopic(req) ==
  /\ req.method = "POST"
  /\ req.json /\ req.object
  /\ StrTruthy(req.body.name) /\ StrTruthy(req.body.email)

\* the handler gets as far as the INSERT
ReachesInsert(req) ==
  /\ req.method = "POST"
  /\ req.json /\ req.object
  /\ StrTruthy(req.body.name) /\ StrTruthy(req.body.email)
  /\ ~(req.body.is_speaker /\ ~StrTruthy(req.body.topic))

\* InsertExecutes without the validation of the body
InsertExecutesUnvalidated(req, t, storeOk) ==
  /\ req.method = "POST" /\ req.json /\ req.object
  /\ storeOk /\ InsertOk(t, InsertArgs(req.body))

\* the INSERT is executed; storeOk: the store does not fail it
InsertExecutes(req, t, storeOk) ==
  ReachesInsert(req) /\ storeOk /\ InsertOk(t, InsertArgs(req.body))

\* SubmissionResponse with the speaker check before the name and email check
SubmissionResponseSpeakerFirst(req, t, storeOk) ==
  IF req.method # "POST" THEN Response(405, "Method Not Allowed")
  ELSE IF ~req.json \/ ~req.object THEN Response(500, "Server Error")
  ELSE IF req.body.is_speaker /\ ~StrTruthy(req.body.topic)
       THEN Response(400, "Topic is required for speakers")
  ELSE IF ~StrTruthy(req.body.name) \/ ~StrTruthy(req.body.email)
       THEN Response(400, "Name and email are required")
  ELSE IF storeOk /\ InsertOk(t, InsertArgs(req.body)) THEN Response(200, "{success:true}")
  ELSE Response(500, "Server Error")

\* SubmissionResponse with req.json() outside the try
SubmissionResponseJsonOutsideTry(req, t, storeOk) ==
  IF req.method # "POST" THEN Response(405, "Method Not Allowed")
  ELSE IF ~req.json THEN [status |-> 0, text |-> "", threw |-> TRUE]
  ELSE IF ~req.object THEN Response(500, "Server Error")
  ELSE IF ~StrTruthy(req.body.name) \/ ~StrTruthy(req.body.email)
       THEN Response(400, "Name and email are required")
  ELSE IF req.body.is_speaker /\ ~StrTruthy(req.body.topic)
       THEN Response(400, "Topic is required for speakers")
  ELSE IF storeOk /\ InsertOk(t, InsertArgs(req.body)) THEN Response(200, "{success:true}")
  ELSE Response(500, "Server Error")

\* SubmissionResponse with the method check after the validation of the body
SubmissionResponseMethodLast(req, t, storeOk) ==
  IF ~req.json \/ ~req.object THEN Response(500, "Server Error")
  ELSE IF ~StrTruthy(req.body.name) \/ ~StrTruthy(req.body.email)
       THEN Response(400, "Name and email are required")
  ELSE IF req.body.is_speaker /\ ~StrTruthy(req.body.topic)
       THEN Response(400, "Topic is required for speakers")
  ELSE IF req.method # "POST" THEN Response(405, "Method Not Allowed")
  ELSE IF storeOk /\ InsertOk(t, InsertArgs(req.body)) THEN Response(200, "{success:true}")
  ELSE Response(500, "Server Error")

\* the response of the handler: req.json() rejects a body that is not JSON and
\* destructuring null throws, both inside the try
SubmissionResponse(req, t, storeOk) ==
  IF req.method # "POST" THEN Response(405, "Method Not Allowed")
  ELSE IF ~req.json \/ ~req.object THEN Response(500, "Server Error")
  ELSE IF ~StrTruthy(req.body.name) \/ ~StrTruthy(req.body.email)
       THEN Response(400, "Name and email are required")
  ELSE IF req.body.is_speaker /\ ~StrTruthy(req.body.topic)
       THEN Response(400, "Topic is required for speakers")
  ELSE IF storeOk /\ InsertOk(t, InsertArgs(req.body)) THEN Response(200, "{success:true}")
  ELSE Response(500, "Server Error")

Body(n, e, sp, tp, pic) ==
  [name |-> n, email |-> e, is_speaker |-> sp, topic |-> tp, profile_pic |-> pic]

\* the requests submitted under Spec
SoloRequests ==
  {[method |-> "POST", json |-> TRUE, object |-> TRUE, body |-> Body("Ana", "a@x.com", FALSE, "", "")],
   [method |-> "POST", json |-> TRUE, object |-> TRUE, body |-> Body("Cy", "c@x.com", TRUE, "", "")]}

\* a submission while the table has fewer than max rows
SubmitUpTo(req, max) ==
  /\ Len(table.rows) < max
  /\ \E storeOk \in BOOLEAN :
       table' = IF InsertExecutes(req, table, storeOk)
                THEN InsertRow(table, InsertArgs(req.body), now)
                ELSE table
  /\ UNCHANGED <<now, session, calls, otherVars>>

SubmitRegistration(req) == SubmitUpTo(req, MaxRows)

\* every request the submission path is sent: the bodies that parse to an
\* object, the body null, a body that is not JSON, and requests of other
\* methods with a body that is or is not JSON and has or lacks an email
Requests ==
  {[method |-> "POST", json |-> TRUE, object |-> TRUE, body |-> Body(n, e, sp, tp, pic)] :
      n \in {Null, "Ana"}, e \in {"", "a@x.com"}, sp \in BOOLEAN,
      tp \in {Null, "", "Talk"}, pic \in {Null, "p.png"}}
  \cup {[method |-> "POST", json |-> FALSE, object |-> FALSE, body |-> Body(Null, Null, FALSE, Null, Null)],
        [method |-> "POST", json |-> TRUE, object |-> FALSE,
         body |-> Body(Null, Null, FALSE, Null, Null)]}
  \cup {[method |-> m, json |-> j, object |-> j, body |-> Body("Ana", e, FALSE, Null, Null)] :
          m \in {"GET", "PUT"}, j \in BOOLEAN, e \in {"", "a@x.com"}}

SubmitPath == "/submit-registration"

\* req.json() is called
ReadsBody(req) == req.method = "POST"

\* the request answered last: its path, what the handler did and the response
Answered(path, req, storeOk, bodyRead, resp) ==
  [path |-> path, req |-> req, storeOk |-> storeOk, bodyRead |-> bodyRead, resp |-> resp]

NoRequest ==
  [path |-> "",
   req |-> [method |-> "", json |-> FALSE, object |-> FALSE, body |-> Body(Null, Null, FALSE, Null, Null)],
   storeOk |-> TRUE, bodyRead |-> FALSE, resp |-> Response(0, "")]

\* handleRegistrationSubmission on a table of fewer than max rows
SubmissionEffect(req, max) ==
  /\ Len(table.rows) < max
  /\ \E storeOk \in BOOLEAN :
       LET resp == SubmissionResponse(req, table, storeOk)
       IN /\ table' = IF InsertExecutes(req, table, storeOk)
                      THEN InsertRow(table, InsertArgs(req.body), now)
                      ELSE table
          /\ last' = Answered(SubmitPath, req, storeOk, ReadsBody(req), resp)
          /\ accepted' = IF resp.status = 200 THEN Append(accepted, req.body) ELSE accepted

\* handleRegistrationSubmission with its response kept
AnswerSubmission(req) ==
  /\ SubmissionEffect(req, MaxRows)
  /\ UNCHANGED <<now, session, calls, init, table0, speakers, client>>

----------------------------------------------------------------------------
(* The request handler: await initializeDatabase(), then the switch on the path *)

UpdatesPath == "/registration-updates"

\* the paths requested: the five of the switch and one it does not know
Paths == {"/", SubmitPath, UpdatesPath, "/reset.css", "/index.css", "/api/submit"}

\* switch (url.pathname)
Route(path) ==
  CASE path = "/" -> "handleMainPage"
    [] path = SubmitPath -> "handleRegistrationSubmission"
    [] path = UpdatesPath -> "handleSSEUpdates"
    [] path = "/reset.css" -> "handleResetCSS"
    [] path = "/index.css" -> "handleMainCSS"
    [] OTHER -> "notFound"

\* the responses that do not depend on the store
StaticResponse(handler) ==
  CASE handler = "handleMainPage" -> Response(200, "HTML_CONTENT")
    [] handler = "handleSSEUpdates" -> Response(200, "stream")
    [] handler = "handleResetCSS" -> Response(200, "RESET_CSS")
    [] handler = "handleMainCSS" -> Response(200, "MAIN_CSS")
    [] OTHER -> Response(404, "Not Found")

\* the handler rejects: an exception escaped it
Thrown == [status |-> 0, text |-> "", threw |-> TRUE]

\* requests of the paths other than the submission path
PlainRequests ==
  {[method |-> m, json |-> TRUE, object |-> TRUE, body |-> Body("Ana", "a@x.com", FALSE, Null, Null)] :
      m \in {"GET", "POST"}}

\* requests of the submission path followed through the whole handler
HandlerSubmissions ==
  SoloRequests
  \cup {[method |-> "POST", json |-> TRUE, object |-> TRUE, body |-> Body("Ana", "", FALSE, Null, Null)],
        [method |-> "GET", json |-> TRUE, object |-> TRUE, body |-> Body("Ana", "a@x.com", FALSE, Null, Null)]}
  \cup {[method |-> "POST", json |-> FALSE, object |-> FALSE, body |-> Body(Null, Null, FALSE, Null, Null)]}

HandlerRequests(path) == IF path = SubmitPath THEN HandlerSubmissions ELSE PlainRequests

----------------------------------------------------------------------------
(* handleSSEUpdates: the stream, its controller and the state of start *)

NewSession ==
  [startPc |-> "new", isClosed |-> FALSE, intervalId |-> "none", stream |-> "none",
   fires |-> 0, enqueueCalls |-> 0, clearCalls |-> 0, cleanups |-> 0,
   cancelSignals |-> 0, closedAtCancel |-> FALSE, frames |-> <<>>,
   fetchOrder |-> <<>>, unhandled |-> 0, acceptedAtOpen |-> 0, initFailed |-> FALSE]

\* a ReadableStream controller accepts enqueue and close only while the stream is readable
CanCloseOrEnqueue(se) == se.stream = "readable"

\* controller.enqueue(frame); it throws when ~CanCloseOrEnqueue
ControllerEnqueue(se, frame) ==
  [se EXCEPT !.enqueueCalls = @ + 1,
             !.frames = IF CanCloseOrEnqueue(se) THEN Append(@, frame) ELSE @]

\* controller.close(); it throws when ~CanCloseOrEnqueue
ControllerClose(se) == [se EXCEPT !.stream = "closed"]

ClearInterval(se) ==
  [se EXCEPT !.clearCalls = @ + 1,
             !.intervalId = IF @ = "armed" THEN "cleared" ELSE @]

\* isClosed = true
SetClosed(se) == [se EXCEPT !.isClosed = TRUE, !.cleanups = @ + 1]

\* data: ${JSON.stringify({ registrations })}\n\n, tagged with the call that sent it
Frame(k, regs) == [call |-> k, registrations |-> regs]

\* StartCatch with controller.close() outside a try
StartCatchUnguarded(se) ==
  [(IF se.isClosed THEN se
    ELSE IF CanCloseOrEnqueue(se) THEN SetClosed(ControllerClose(se))
    ELSE [se EXCEPT !.unhandled = @ + 1])
     EXCEPT !.startPc = "returned"]

\* the catch of start
StartCatch(se) ==
  [(IF ~se.isClosed /\ CanCloseOrEnqueue(se) THEN SetClosed(ControllerClose(se)) ELSE se)
     EXCEPT !.startPc = "returned"]

\* setInterval(..., 3000) and the return of start
StartArm(se) == [se EXCEPT !.intervalId = "armed", !.startPc = "returned"]

\* StartSend whose catch does not return: setInterval follows
StartSendNoReturn(se, r, frame) ==
  IF r.threw THEN StartArm(StartCatch(se))
  ELSE IF se.isClosed THEN StartArm(se)
  ELSE IF CanCloseOrEnqueue(se) THEN StartArm(ControllerEnqueue(se, frame))
  ELSE StartArm(StartCatch(ControllerEnqueue(se, frame)))

\* StartSend with setInterval before the initial send
StartSendArmsFirst(se, r, frame) ==
  IF r.threw THEN [StartCatch(se) EXCEPT !.intervalId = "armed"]
  ELSE IF se.isClosed THEN StartArm(se)
  ELSE IF CanCloseOrEnqueue(se) THEN StartArm(ControllerEnqueue(se, frame))
  ELSE [StartCatch(ControllerEnqueue(se, frame)) EXCEPT !.intervalId = "armed"]

\* start, from the return of its getAllRegistrations
StartSend(se, r, frame) ==
  IF r.threw THEN StartCatch(se)
  ELSE IF se.isClosed THEN StartArm(se)
  ELSE IF CanCloseOrEnqueue(se) THEN StartArm(ControllerEnqueue(se, frame))
  ELSE StartCatch(ControllerEnqueue(se, frame))

\* TickEnqueueCatch without isClosed = true
TickEnqueueCatchNoFlag(se) == ClearInterval(se)

\* TickEnqueueCatch without clearInterval(intervalId)
TickEnqueueCatchNoClear(se) == SetClosed(se)

\* catch (enqueueError) of the timer callback
TickEnqueueCatch(se) == ClearInterval(SetClosed(se))

\* TickSend without the test of isClosed
TickSendUnchecked(se, frame) ==
  IF CanCloseOrEnqueue(se) THEN ControllerEnqueue(se, frame)
  ELSE TickEnqueueCatch(ControllerEnqueue(se, frame))

\* TickSend sending a delta: the registrations no earlier frame carried
TickSendDelta(se, frame) ==
  LET Unsent(r) ==
        \A f \in 1..Len(se.frames) :
          \A j \in 1..Len(se.frames[f].registrations) :
            se.frames[f].registrations[j].id # r.id
      delta == [frame EXCEPT !.registrations = SelectSeq(@, Unsent)]
  IN IF se.isClosed THEN se
     ELSE IF CanCloseOrEnqueue(se) THEN ControllerEnqueue(se, delta)
     ELSE TickEnqueueCatch(ControllerEnqueue(se, delta))

\* TickSend whose catch (enqueueError) only logs
TickSendIgnoringFailure(se, frame) ==
  IF se.isClosed THEN se ELSE ControllerEnqueue(se, frame)

\* the timer callback, from the return of its getAllRegistrations
TickSend(se, frame) ==
  IF se.isClosed THEN se
  ELSE IF CanCloseOrEnqueue(se) THEN ControllerEnqueue(se, frame)
  ELSE TickEnqueueCatch(ControllerEnqueue(se, frame))

\* the outer catch of the timer callback
TickCatch(se) ==
  IF se.isClosed THEN se
  ELSE ClearInterval(IF CanCloseOrEnqueue(se) THEN SetClosed(ControllerClose(se)) ELSE se)

TickResume(se, r, frame) == IF r.threw THEN TickCatch(se) ELSE TickSend(se, frame)

\* the function start returns; a ReadableStream does not call it
ReturnedCleanup(se) == ClearInterval(SetClosed(se))

\* cancel() running the cleanup start returns
CancelRunsCleanup(se) == ReturnedCleanup(se)

\* cancel(): console.log only
Cancel(se) == se

\* what the caller of a getAllRegistrations call did on its return
Outcome(se, se2) ==
  IF se2.unhandled > se.unhandled THEN "threw"
  ELSE IF se2.enqueueCalls = se.enqueueCalls THEN "skipped"
  ELSE IF se2.frames = se.frames THEN "writeFailed"
  ELSE "written"

----------------------------------------------------------------------------
(* The page's script: initEventSource and the handlers of an EventSource *)

\* sources: the EventSource objects created, each with its readyState and the
\* messages it received; timers: pending setTimeout(initEventSource, 3000);
\* delays: the delay of each timer set; status: connectionStatus.textContent;
\* shown: the entries of the participant list (-1: as the page was loaded)
NewClient ==
  [started |-> FALSE, sources |-> <<>>, timers |-> 0, delays |-> <<>>, errors |-> 0,
   status |-> "", shown |-> -1]

\* the EventSource objects that are not closed
ActiveSources == {i \in 1..Len(client.sources) : client.sources[i].readyState # "CLOSED"}

\* initEventSource(): the status text and a new EventSource
InitEventSource(c) ==
  [c EXCEPT !.status = "Connecting...", !.sources = Append(@, [readyState |-> "CONNECTING", received |-> 0])]

\* OnError without eventSource.close()
OnErrorKeepsSource(c, i) ==
  [c EXCEPT !.status = "Connection error. Reconnecting...",
            !.timers = @ + 1,
            !.delays = Append(@, 3000),
            !.errors = @ + 1]

\* eventSource.onerror: status text, eventSource.close(), setTimeout(initEventSource, 3000)
OnError(c, i) ==
  [c EXCEPT !.status = "Connection error. Reconnecting...",
            !.sources[i].readyState = "CLOSED",
            !.timers = @ + 1,
            !.delays = Append(@, 3000),
            !.errors = @ + 1]

----------------------------------------------------------------------------
(* Actions *)

\* GET /registration-updates: the stream is created and start runs to its first await
\* initFailed: the initializeDatabase of the request met an error
SessionEffect(s, initFailed) ==
  /\ session[s].startPc = "new"
  /\ session' = [session EXCEPT ![s] = [@ EXCEPT !.startPc = "awaiting",
                                                 !.stream = "readable",
                                                 !.acceptedAtOpen = Len(accepted),
                                                 !.initFailed = initFailed]]
  /\ calls' = [calls EXCEPT ![s][0] = [@ EXCEPT !.phase = "pragma"]]

OpenSession(s) ==
  /\ SessionEffect(s, FALSE)
  /\ UNCHANGED <<table, now, otherVars>>

\* the store executes the PRAGMA of call k, or fails it
ExecPragma(s, k) ==
  /\ calls[s][k].phase = "pragma"
  /\ \E ok \in BOOLEAN :
       calls' = [calls EXCEPT ![s][k] =
                   [@ EXCEPT !.phase = "pragmaRes",
                             !.res = [ok |-> ok,
                                      rows |-> IF ok THEN PragmaTableInfo(table) ELSE <<>>]]]
  /\ UNCHANGED <<table, now, session, otherVars>>

\* the store executes the SELECT of call k, or fails it
ExecSelect(s, k) ==
  /\ calls[s][k].phase = "select"
  /\ \E ok \in BOOLEAN, p \in SelectOrders(table.rows) :
       calls' = [calls EXCEPT ![s][k] =
                   [@ EXCEPT !.phase = "selectRes",
                             !.raced = PragmaTableInfo(table) # calls[s][k].columns,
                             !.res = IF ok
                                     THEN SelectRows(table, SelectColumnsFor(calls[s][k].columns), p)
                                     ELSE [ok |-> FALSE, rows |-> <<>>]]]
  /\ session' = [session EXCEPT ![s].fetchOrder = Append(@, k)]
  /\ UNCHANGED <<table, now, otherVars>>

\* Resume with isClosed declared outside start: one flag for every session
ResumeSharedFlag(s, k, r, err) ==
  LET se == session[s]
      se2 == IF k = 0 THEN StartSend(se, r, Frame(k, r.value))
             ELSE TickResume(se, r, Frame(k, r.value))
  IN /\ session' = [t \in Sessions |->
                      IF t = s THEN se2
                      ELSE [session[t] EXCEPT !.isClosed = @ \/ se2.isClosed]]
     /\ calls' = [calls EXCEPT ![s][k] = [@ EXCEPT !.phase = "done", !.err = err, !.ret = r,
                                                   !.outcome = Outcome(se, se2)]]

\* the caller of call k resumes with r, the value of getAllRegistrations
Resume(s, k, r, err) ==
  LET se == session[s]
      se2 == IF k = 0 THEN StartSend(se, r, Frame(k, r.value))
             ELSE TickResume(se, r, Frame(k, r.value))
  IN /\ session' = [session EXCEPT ![s] = se2]
     /\ calls' = [calls EXCEPT ![s][k] = [@ EXCEPT !.phase = "done", !.err = err, !.ret = r,
                                                   !.outcome = Outcome(se, se2)]]

\* getAllRegistrations of call k resumes from its PRAGMA
PragmaReply(s, k) ==
  /\ calls[s][k].phase = "pragmaRes"
  /\ IF calls[s][k].res.ok
     THEN /\ calls' = [calls EXCEPT ![s][k] = [@ EXCEPT !.phase = "select",
                                                        !.columns = calls[s][k].res.rows]]
          /\ UNCHANGED session
     ELSE Resume(s, k, GetAllCatch, TRUE)
  /\ UNCHANGED <<table, now, otherVars>>

\* getAllRegistrations of call k resumes from its SELECT and returns
SelectReply(s, k) ==
  /\ calls[s][k].phase = "selectRes"
  /\ Resume(s, k, GetAllReturn(calls[s][k].res, calls[s][k].columns), ~calls[s][k].res.ok)
  /\ UNCHANGED <<table, now, otherVars>>

\* TimerFire of a timer set with setTimeout: it fires once
TimerFireOnce(s) ==
  /\ session[s].intervalId = "armed"
  /\ session[s].fires = 0
  /\ session' = [session EXCEPT ![s].fires = 1]
  /\ calls' = [calls EXCEPT ![s][1] = [@ EXCEPT !.phase = "pragma"]]
  /\ UNCHANGED <<table, now, otherVars>>

\* the interval elapses: the callback runs to its first await
TimerFire(s) ==
  /\ session[s].intervalId = "armed"
  /\ session[s].fires < MaxFires
  /\ LET k == session[s].fires + 1
         se == [session[s] EXCEPT !.fires = k]
     IN IF se.isClosed
        THEN /\ session' = [session EXCEPT ![s] = ClearInterval(se)]
             /\ calls' = [calls EXCEPT ![s][k] = [@ EXCEPT !.phase = "done",
                                                           !.outcome = "skipped"]]
        ELSE /\ session' = [session EXCEPT ![s] = se]
             /\ calls' = [calls EXCEPT ![s][k] = [@ EXCEPT !.phase = "pragma"]]
  /\ UNCHANGED <<table, now, otherVars>>

\* the transport reports that the client is gone: the stream is closed and cancel()
\* runs.  The report may come again for a stream that is closed already (a
\* ReadableStream would drop it there; the model lets cancel() run each time).
ClientDisconnect(s) ==
  /\ session[s].stream # "none"
  /\ session[s].cancelSignals < MaxCancels
  /\ session' = [session EXCEPT ![s] =
                   Cancel([@ EXCEPT !.stream = "closed",
                                    !.cancelSignals = @ + 1,
                                    !.closedAtCancel = @ \/ session[s].isClosed])]
  /\ UNCHANGED <<table, now, calls, otherVars>>

\* a request begins: initializeDatabase sends its sqlite_master SELECT
InitCall(p) ==
  /\ init[p].pc \in {"idle", "returned"}
  /\ init[p].n < MaxInitCalls
  /\ init' = [init EXCEPT ![p] = [@ EXCEPT !.pc = "exists", !.n = @ + 1,
                                           !.columns = <<>>, !.writes = 0,
                                           !.caught = FALSE, !.routed = FALSE,
                                           !.fullAtStart = FullColumns(table)]]
  /\ UNCHANGED <<table, now, session, calls, last, accepted, table0, speakers, client>>

\* SELECT name FROM sqlite_master ... is answered
InitExists(p) ==
  /\ init[p].pc = "exists"
  /\ \E ok \in BOOLEAN :
       init' = [init EXCEPT ![p] =
                  IF ~ok THEN InitCatch(@, table, TRUE)
                  ELSE IF ~table.exists THEN InitGoto(@, table, "create")
                  ELSE InitGoto(@, table, "pragma")]
  /\ UNCHANGED <<table, now, session, calls, last, accepted, table0, speakers, client>>

\* CREATE TABLE IF NOT EXISTS is executed
InitCreate(p) ==
  /\ init[p].pc = "create"
  /\ \E ok \in BOOLEAN :
       /\ table' = IF ok THEN CreateTable(table) ELSE table
       /\ init' = [init EXCEPT ![p] =
                     IF ok THEN InitReturn(@, table') ELSE InitCatch(@, table', TRUE)]
  /\ UNCHANGED <<now, session, calls, last, accepted, table0, speakers, client>>

\* PRAGMA table_info(registrations) is answered
InitPragma(p) ==
  /\ init[p].pc = "pragma"
  /\ \E ok \in BOOLEAN :
       init' = [init EXCEPT ![p] =
                  IF ~ok THEN InitCatch(@, table, TRUE)
                  ELSE LET cols == PragmaTableInfo(table)
                       IN InitGoto([@ EXCEPT !.columns = cols], table, NextAlter(cols, 1))]
  /\ UNCHANGED <<table, now, session, calls, last, accepted, table0, speakers, client>>

\* ALTER TABLE registrations ADD COLUMN <pc> is executed
InitAlter(p) ==
  /\ init[p].pc \in Range(AlterOrder)
  /\ \E ok \in BOOLEAN :
       LET c == init[p].pc
           done == ok /\ AlterOk(table, c)
       IN /\ table' = IF done THEN AddColumn(table, c) ELSE table
          /\ init' = [init EXCEPT ![p] =
                        IF done
                        THEN InitGoto(@, table', NextAlter(@.columns, AlterIndex(c) + 1))
                        ELSE InitCatch(@, table', ~ok)]
  /\ UNCHANGED <<now, session, calls, last, accepted, table0, speakers, client>>

\* getSpeakers is called: its PRAGMA is sent
SpeakersCall ==
  /\ speakers.pc \in {"idle", "returned"}
  /\ speakers.n < MaxSpeakerCalls
  /\ speakers' = [IdleSpeakers EXCEPT !.pc = "pragma", !.n = speakers.n + 1]
  /\ UNCHANGED <<table, now, session, calls, last, accepted, init, table0, client>>

\* the PRAGMA of getSpeakers is answered: without the speaker columns it returns []
SpeakersPragma ==
  /\ speakers.pc = "pragma"
  /\ \E ok \in BOOLEAN :
       LET cols == PragmaTableInfo(table)
       IN speakers' =
            IF ~ok
            THEN [speakers EXCEPT !.pc = "returned", !.err = TRUE, !.ret = SpeakersCatch,
                                  !.lacked = LacksSpeakerColumns(table)]
            ELSE IF MissingSpeakerColumns(cols)
            THEN [speakers EXCEPT !.pc = "returned", !.columns = cols,
                                  !.lacked = LacksSpeakerColumns(table),
                                  !.ret = [threw |-> FALSE, value |-> <<>>]]
            ELSE [speakers EXCEPT !.pc = "select", !.columns = cols, !.selects = @ + 1,
                                  !.lacked = LacksSpeakerColumns(table)]
  /\ UNCHANGED <<table, now, session, calls, last, accepted, init, table0, client>>

\* the speaker SELECT is answered and getSpeakers returns
SpeakersSelect ==
  /\ speakers.pc = "select"
  /\ \E ok \in BOOLEAN, p \in SpeakerOrders(table) :
       LET res == IF ok THEN SelectSpeakers(table, SpeakerColumnsFor(speakers.columns), p)
                  ELSE [ok |-> FALSE, rows |-> <<>>]
       IN speakers' =
            [speakers EXCEPT
               !.pc = "returned",
               !.err = ~res.ok,
               !.ret = IF res.ok
                       THEN [threw |-> FALSE,
                             value |-> [i \in 1..Len(res.rows) |->
                                          RowToSpeaker(res.rows[i], speakers.columns)]]
                       ELSE SpeakersCatch]
  /\ UNCHANGED <<table, now, session, calls, last, accepted, init, table0, client>>

\* a second passes on the store clock, datetime('now')
AdvanceClock ==
  /\ now < MaxClock
  /\ now' = now + 1
  /\ UNCHANGED <<table, session, calls, otherVars>>

\* a request arrives at a caller whose earlier request has been answered
Arrive(p) ==
  /\ init[p].pc = "idle" \/ init[p].routed
  /\ InitCall(p)

\* the handler of caller p resumes from await initializeDatabase() and answers
HandleRoute(p, path, req) ==
  /\ init[p].pc = "returned"
  /\ ~init[p].routed
  /\ init' = [init EXCEPT ![p].routed = TRUE]
  /\ IF init[p].threw
     THEN /\ last' = Answered(path, req, TRUE, FALSE, Thrown)
          /\ UNCHANGED <<table, accepted, session, calls>>
     ELSE CASE Route(path) = "handleRegistrationSubmission" ->
                 /\ SubmissionEffect(req, Len(table0.rows) + MaxRows)
                 /\ UNCHANGED <<session, calls>>
            [] Route(path) = "handleSSEUpdates" ->
                 /\ \E s \in SoloSessions : SessionEffect(s, init[p].caught)
                 /\ last' = Answered(path, req, TRUE, FALSE, StaticResponse(Route(path)))
                 /\ UNCHANGED <<table, accepted>>
            [] OTHER ->
                 /\ last' = Answered(path, req, TRUE, FALSE, StaticResponse(Route(path)))
                 /\ UNCHANGED <<table, accepted, session, calls>>
  /\ UNCHANGED <<now, table0, speakers, client>>

----------------------------------------------------------------------------
(* Specification: one session, polling the table while registrations arrive  *)
(* within one second of the store clock (getAllRegistrations does not select *)
(* the timestamp, and rows of one second may come in any order)              *)

Init ==
  /\ table = [exists |-> TRUE, columns |-> AllColumns, rows |-> <<>>]
  /\ now = 0
  /\ session = [s \in Sessions |-> NewSession]
  /\ calls = [s \in Sessions |-> [k \in CallIds |-> IdleCall]]
  /\ last = NoRequest
  /\ accepted = <<>>
  /\ init = [p \in InitCallers |-> IdleInit]
  /\ table0 = table
  /\ speakers = IdleSpeakers
  /\ client = NewClient

Next ==
  \/ \E s \in SoloSessions : OpenSession(s)
  \/ \E s \in SoloSessions, k \in CallIds : ExecPragma(s, k)
  \/ \E s \in SoloSessions, k \in CallIds : PragmaReply(s, k)
  \/ \E s \in SoloSessions, k \in CallIds : ExecSelect(s, k)
  \/ \E s \in SoloSessions, k \in CallIds : SelectReply(s, k)
  \/ \E s \in SoloSessions : TimerFire(s)
  \/ \E s \in SoloSessions : ClientDisconnect(s)
  \/ \E req \in SoloRequests : SubmitRegistration(req)

Spec == Init /\ [][Next]_vars

----------------------------------------------------------------------------
(* Properties of the session *)

TicksInFlight(s) == {k \in TickIds : InFlight(calls[s][k])}

\* start has returned, no timer is armed and no callback is awaiting the store
Quiescent(s) ==
  /\ session[s].startPc = "returned"
  /\ session[s].intervalId # "armed"
  /\ \A k \in CallIds : ~InFlight(calls[s][k])

PosIn(seq, x) == CHOOSE i \in 1..Len(seq) : seq[i] = x

SessionState(se) ==
  IF se.isClosed THEN "CLOSED"
  ELSE IF se.intervalId = "armed" THEN "STREAMING"
  ELSE IF se.startPc = "returned" THEN "CLOSED"
  ELSE "STARTING"

StateRank(st) == CASE st = "STARTING" -> 0 [] st = "STREAMING" -> 1 [] st = "CLOSED" -> 2

\* C1: a session whose initial write failed has no timer: setInterval was
\* not called and no timer callback has run, in every state after the failure.
C1_NoTimerAfterFailedFirstWrite ==
  \A s \in Sessions :
    calls[s][0].outcome = "writeFailed" =>
      /\ session[s].intervalId = "none"
      /\ session[s].fires = 0

C1_Witness ==
  \E s \in Sessions :
    /\ calls[s][0].outcome = "writeFailed"
    /\ session[s].startPc = "returned"
    /\ session[s].enqueueCalls = 1

\* C2: once the cancellation signal has reached a streaming session (start
\* has returned), the number of write attempts (controller.enqueue calls) of
\* that session no longer changes.
C2_NoWriteAfterCancel ==
  [][\A s \in Sessions :
       (session[s].cancelSignals > 0 /\ session[s].startPc = "returned") =>
         session'[s].enqueueCalls = session[s].enqueueCalls]_vars

\* C3: the step in which a tick's write fails leaves the session closed with
\* its timer cancelled, and from then on the session attempts no write, also
\* when another tick was awaiting its fetch at the failure.
C3_TickWriteFailureCloses ==
  [][\A s \in Sessions :
       /\ (\E k \in TickIds : calls'[s][k].outcome = "writeFailed") =>
            /\ session'[s].isClosed
            /\ session'[s].intervalId = "cleared"
       /\ (\E k \in TickIds : calls[s][k].outcome = "writeFailed") =>
            session'[s].enqueueCalls = session[s].enqueueCalls]_vars

C3_Witness ==
  \E s \in Sessions, k, j \in TickIds :
    /\ calls[s][k].outcome = "writeFailed"
    /\ calls[s][j].phase = "done"
    /\ calls[s][j].outcome = "skipped"

\* C4: a tick whose snapshot fetch failed has ended the session: the channel
\* is closed, the timer is cancelled, and that tick wrote no frame.
C4_FetchFailureTerminal ==
  \A s \in Sessions, k \in TickIds :
    (calls[s][k].phase = "done" /\ calls[s][k].err) =>
      /\ session[s].stream = "closed"
      /\ session[s].intervalId = "cleared"
      /\ calls[s][k].outcome # "written"

\* C5: at most one tick of a session is in progress at any time.
C5_OneTickInProgress ==
  \A s \in Sessions : Cardinality(TicksInFlight(s)) <= 1

\* C6: the frames of a session are written in the order in which their
\* snapshots were read from the store.
C6_FramesInFetchOrder ==
  \A s \in Sessions :
    \A i, j \in 1..Len(session[s].frames) :
      (/\ i < j
       /\ session[s].frames[i].call \in Range(session[s].fetchOrder)
       /\ session[s].frames[j].call \in Range(session[s].fetchOrder)) =>
        PosIn(session[s].fetchOrder, session[s].frames[i].call)
          < PosIn(session[s].fetchOrder, session[s].frames[j].call)

\* C7: once a disconnected session has come to rest (start returned, no timer
\* armed, no callback awaiting the store), its cleanup has run exactly once.
C7_DisconnectCleansUpOnce ==
  \A s \in Sessions :
    (session[s].cancelSignals > 0 /\ Quiescent(s)) => session[s].cleanups = 1

\* C8: a cancellation that reaches an already closed session changes nothing
\* of the session: flag, timer, channel, write attempts, clearInterval calls,
\* frames and escaped errors stay as they are, and no store call is started.
C8_CancelClosedIsNoOp ==
  [][\A s \in Sessions :
       (session[s].isClosed /\ session'[s].cancelSignals > session[s].cancelSignals) =>
         /\ session'[s] = [session[s] EXCEPT !.cancelSignals = @ + 1,
                                             !.closedAtCancel = TRUE]
         /\ calls'[s] = calls[s]]_vars

C8_Witness ==
  \E s \in Sessions :
    /\ session[s].closedAtCancel
    /\ session[s].cancelSignals = 2
    /\ session[s].clearCalls = 1

\* C9: the state of a session never moves backwards (STARTING, STREAMING,
\* CLOSED), and once isClosed is set it stays set, the timer is not armed and
\* no frame is added.
C9_ClosedIsTerminal ==
  [][\A s \in Sessions :
       /\ StateRank(SessionState(session'[s])) >= StateRank(SessionState(session[s]))
       /\ session[s].isClosed =>
            /\ session'[s].isClosed
            /\ session'[s].intervalId # "armed"
            /\ session'[s].frames = session[s].frames]_vars

C9_Witness ==
  \E s \in Sessions :
    /\ session[s].isClosed
    /\ Len(session[s].frames) >= 2
    /\ Quiescent(s)
    /\ Len(table.rows) > Len(session[s].frames[Len(session[s].frames)].registrations)

\* C10: no exception escapes start or a timer callback, whatever store
\* error, write error or close error happened in the session.
C10_NoUnhandledError ==
  \A s \in Sessions : session[s].unhandled = 0

C10_Witness ==
  \E s \in Sessions, k, j \in CallIds :
    /\ calls[s][k].err
    /\ calls[s][j].outcome = "writeFailed"
    /\ calls[s][j].phase = "done"

----------------------------------------------------------------------------
(* Specification: submissions and the first getAllRegistrations of a session *)

SubmitNext ==
  \/ \E req \in Requests : AnswerSubmission(req)
  \/ \E s \in SoloSessions : OpenSession(s)
  \/ \E s \in SoloSessions : ExecPragma(s, 0)
  \/ \E s \in SoloSessions : PragmaReply(s, 0)
  \/ \E s \in SoloSessions : ExecSelect(s, 0)
  \/ \E s \in SoloSessions : SelectReply(s, 0)

SpecSubmit == Init /\ [][SubmitNext]_vars

----------------------------------------------------------------------------
(* Specifications: initializeDatabase on a table of any age, called again *)
(* and again by one caller (SpecInitSeq) or by concurrent requests        *)

OldRow(cols) ==
  [c \in Range(cols) |->
     CASE c = "id" -> 1
       [] c = "timestamp" -> 0
       [] c = "name" -> "Old"
       [] c = "email" -> "o@x.com"
       [] c = "is_speaker" -> 1
       [] c = "topic" -> "Old talk"
       [] c = "profile_pic" -> Null]

Optional(b, c) == IF b THEN <<c>> ELSE <<>>

\* the table is missing, or has the base columns and any of the later ones
InitTables ==
  {[exists |-> FALSE, columns |-> <<>>, rows |-> <<>>]}
  \cup {[exists |-> TRUE, columns |-> cols, rows |-> rows] :
          cols \in {BaseColumns \o Optional(s, "is_speaker") \o Optional(t, "topic")
                      \o Optional(pp, "profile_pic") : s, t, pp \in BOOLEAN},
          rows \in {<<>>}}
  \cup {[exists |-> TRUE, columns |-> cols, rows |-> <<OldRow(cols)>>] :
          cols \in {BaseColumns \o Optional(s, "is_speaker") \o Optional(t, "topic")
                      \o Optional(pp, "profile_pic") : s, t, pp \in BOOLEAN}}

InitDb ==
  /\ table \in InitTables
  /\ now = 0
  /\ session = [s \in Sessions |-> NewSession]
  /\ calls = [s \in Sessions |-> [k \in CallIds |-> IdleCall]]
  /\ last = NoRequest
  /\ accepted = <<>>
  /\ init = [p \in InitCallers |-> IdleInit]
  /\ table0 = table
  /\ speakers = IdleSpeakers
  /\ client = NewClient

InitSeqNext ==
  \/ \E p \in SeqCallers : InitCall(p)
  \/ \E p \in SeqCallers : InitExists(p)
  \/ \E p \in SeqCallers : InitCreate(p)
  \/ \E p \in SeqCallers : InitPragma(p)
  \/ \E p \in SeqCallers : InitAlter(p)

SpecInitSeq == InitDb /\ [][InitSeqNext]_vars

InitConcNext ==
  \/ \E p \in InitCallers : InitCall(p)
  \/ \E p \in InitCallers : InitExists(p)
  \/ \E p \in InitCallers : InitCreate(p)
  \/ \E p \in InitCallers : InitPragma(p)
  \/ \E p \in InitCallers : InitAlter(p)

SpecInitConc == InitDb /\ [][InitConcNext]_vars

----------------------------------------------------------------------------
(* Specification: requests of every path, one after the other, on a table of *)
(* any age: initializeDatabase, the switch, the handler of the path, and the *)
(* session a request of the updates path opens                               *)

HandlerNext ==
  \/ \E p \in SeqCallers : Arrive(p)
  \/ \E p \in SeqCallers : InitExists(p)
  \/ \E p \in SeqCallers : InitCreate(p)
  \/ \E p \in SeqCallers : InitPragma(p)
  \/ \E p \in SeqCallers : InitAlter(p)
  \/ \E p \in SeqCallers, path \in Paths :
        \E req \in HandlerRequests(path) : HandleRoute(p, path, req)
  \/ \E s \in SoloSessions : ExecPragma(s, 0)
  \/ \E s \in SoloSessions : PragmaReply(s, 0)
  \/ \E s \in SoloSessions : ExecSelect(s, 0)
  \/ \E s \in SoloSessions : SelectReply(s, 0)

SpecHandler == InitDb /\ [][HandlerNext]_vars

----------------------------------------------------------------------------
(* Specification: every operation that reaches the store, on an old table   *)
(* with a row or on no table: initializeDatabase, a submission, the session *)
(* of the updates path and its timer callbacks                              *)

LifeTables ==
  {[exists |-> FALSE, columns |-> <<>>, rows |-> <<>>],
   [exists |-> TRUE, columns |-> BaseColumns, rows |-> <<OldRow(BaseColumns)>>]}

LifePaths == {SubmitPath, UpdatesPath}

LifeRequests(path) ==
  IF path = SubmitPath
  THEN {[method |-> "POST", json |-> TRUE, object |-> TRUE, body |-> Body("Ana", "a@x.com", FALSE, "", "")]}
  ELSE {[method |-> "GET", json |-> TRUE, object |-> TRUE, body |-> Body("Ana", "a@x.com", FALSE, Null, Null)]}

\* the row of an old table was stored in an earlier second of the store clock
InitLife ==
  /\ table \in LifeTables
  /\ now = 1
  /\ session = [s \in Sessions |-> NewSession]
  /\ calls = [s \in Sessions |-> [k \in CallIds |-> IdleCall]]
  /\ last = NoRequest
  /\ accepted = <<>>
  /\ init = [p \in InitCallers |-> IdleInit]
  /\ table0 = table
  /\ speakers = IdleSpeakers
  /\ client = NewClient

\* a request has arrived and is not answered yet
RequestInProgress ==
  \E p \in SeqCallers : init[p].pc # "idle" /\ ~init[p].routed

\* the requests come one after the other and the last one that can come is the
\* one that opens the session: the session polls the table they left
LifeNext ==
  \/ \E p \in SeqCallers : Arrive(p)
  \/ \E p \in SeqCallers : InitExists(p)
  \/ \E p \in SeqCallers : InitCreate(p)
  \/ \E p \in SeqCallers : InitPragma(p)
  \/ \E p \in SeqCallers : InitAlter(p)
  \/ \E p \in SeqCallers, path \in LifePaths :
        \E req \in LifeRequests(path) :
          /\ path = UpdatesPath => init[p].n = MaxInitCalls
          /\ HandleRoute(p, path, req)
  \/ \E s \in SoloSessions, k \in CallIds : ~RequestInProgress /\ ExecPragma(s, k)
  \/ \E s \in SoloSessions, k \in CallIds : ~RequestInProgress /\ PragmaReply(s, k)
  \/ \E s \in SoloSessions, k \in CallIds : ~RequestInProgress /\ ExecSelect(s, k)
  \/ \E s \in SoloSessions, k \in CallIds : ~RequestInProgress /\ SelectReply(s, k)
  \/ \E s \in SoloSessions : ~RequestInProgress /\ TimerFire(s)

SpecLife == InitLife /\ [][LifeNext]_vars

----------------------------------------------------------------------------
(* Specification: getSpeakers on a table of any age, while a request runs *)
(* initializeDatabase on it                                               *)

SpeakersNext ==
  \/ SpeakersCall
  \/ SpeakersPragma
  \/ SpeakersSelect
  \/ \E p \in SeqCallers : InitCall(p)
  \/ \E p \in SeqCallers : InitExists(p)
  \/ \E p \in SeqCallers : InitCreate(p)
  \/ \E p \in SeqCallers : InitPragma(p)
  \/ \E p \in SeqCallers : InitAlter(p)

SpecSpeakers == InitDb /\ [][SpeakersNext]_vars

----------------------------------------------------------------------------
(* Specification: registrations arrive in the same and in later seconds of *)
(* the store clock, and a session reads them                               *)

OrderNext ==
  \/ AdvanceClock
  \/ \E req \in SoloRequests : SubmitUpTo(req, MaxOrderRows)
  \/ \E s \in SoloSessions : OpenSession(s)
  \/ \E s \in SoloSessions : ExecPragma(s, 0)
  \/ \E s \in SoloSessions : PragmaReply(s, 0)
  \/ \E s \in SoloSessions : ExecSelect(s, 0)
  \/ \E s \in SoloSessions : SelectReply(s, 0)

SpecOrder == Init /\ [][OrderNext]_vars

----------------------------------------------------------------------------
(* Properties of submissions and of the snapshot they are read back in *)

\* the list the initial getAllRegistrations of session s returned, as sent
FirstFrame(s) == session[s].frames[1].registrations

FirstFrameWritten(s) ==
  /\ calls[s][0].phase = "done"
  /\ calls[s][0].outcome = "written"

\* a value as the store gives it back: empty and missing text is null
AsStored(v) == IF v = "" \/ v = Null THEN Null ELSE v

\* C11 as claimed: the list returned by a getAllRegistrations call that follows
\* an accepted submission has a registration with the submitted name, email,
\* flag, topic and profile_pic.
C11_SubmittedIsListed ==
  \A s \in Sessions :
    FirstFrameWritten(s) =>
      \A i \in 1..session[s].acceptedAtOpen :
        \E j \in 1..Len(FirstFrame(s)) :
          /\ FirstFrame(s)[j].name = accepted[i].name
          /\ FirstFrame(s)[j].email = accepted[i].email
          /\ FirstFrame(s)[j].is_speaker = accepted[i].is_speaker
          /\ FirstFrame(s)[j].topic = accepted[i].topic
          /\ FirstFrame(s)[j].profile_pic = accepted[i].profile_pic

\* C11 amended: when no store statement of the call fails, the list has a
\* registration with the submitted name, email and flag, and with the submitted
\* topic and profile_pic, an empty or missing one being returned as null.
C11_SubmittedIsListedAsStored ==
  \A s \in Sessions :
    (FirstFrameWritten(s) /\ ~calls[s][0].err) =>
      \A i \in 1..session[s].acceptedAtOpen :
        \E j \in 1..Len(FirstFrame(s)) :
          /\ FirstFrame(s)[j].id = i
          /\ FirstFrame(s)[j].name = accepted[i].name
          /\ FirstFrame(s)[j].email = accepted[i].email
          /\ FirstFrame(s)[j].is_speaker = accepted[i].is_speaker
          /\ FirstFrame(s)[j].topic = AsStored(accepted[i].topic)
          /\ FirstFrame(s)[j].profile_pic = AsStored(accepted[i].profile_pic)

C11_Witness ==
  \E s \in Sessions :
    /\ FirstFrameWritten(s) /\ ~calls[s][0].err
    /\ session[s].acceptedAtOpen = 1
    /\ accepted[1].is_speaker /\ accepted[1].profile_pic = "p.png"
    /\ Len(FirstFrame(s)) = 1

\* C12 as claimed: the first frame of a session has an entry for every
\* registration whose submission was answered 200 before the session was opened.
C12_FirstFrameHasEarlier ==
  \A s \in Sessions :
    FirstFrameWritten(s) =>
      \A i \in 1..session[s].acceptedAtOpen :
        \E j \in 1..Len(FirstFrame(s)) :
          /\ FirstFrame(s)[j].id = i
          /\ FirstFrame(s)[j].name = table.rows[i].name

\* C12 amended: the same, for a session whose initial getAllRegistrations met
\* no store failure (after a failure the first frame carries an empty list).
C12_FirstFrameHasEarlierUnlessFailed ==
  \A s \in Sessions :
    (FirstFrameWritten(s) /\ ~calls[s][0].err) =>
      \A i \in 1..session[s].acceptedAtOpen :
        \E j \in 1..Len(FirstFrame(s)) :
          /\ FirstFrame(s)[j].id = i
          /\ FirstFrame(s)[j].name = table.rows[i].name

C12_Witness ==
  \E s \in Sessions :
    /\ FirstFrameWritten(s) /\ ~calls[s][0].err
    /\ session[s].acceptedAtOpen >= 1
    /\ FirstFrame(s)[1].name = "Ana"

----------------------------------------------------------------------------
(* Properties of initializeDatabase *)

\* every row the table started with is there, with the values it had
RowsKept ==
  /\ table0.exists => table.exists
  /\ Len(table.rows) = Len(table0.rows)
  /\ \A i \in 1..Len(table0.rows) :
       \A c \in Range(table0.columns) :
         c \in DOMAIN table.rows[i] /\ table.rows[i][c] = table0.rows[i][c]

SameColumnsAsFirst(p) ==
  /\ table.exists = init[p].first.exists
  /\ Range(table.columns) = Range(init[p].first.columns)

AllReturned == \A p \in InitCallers : init[p].pc = "returned"

NoStoreFailure == \A p \in InitCallers : ~init[p].spont

C15_FullWhenReturned ==
  \A p \in InitCallers :
    (init[p].pc = "returned" /\ NoStoreFailure) => FullColumns(table)

\* C16: a call begun on a table with the full column set issues no CREATE and
\* no ALTER, and none of its steps changes the table.
C16_NoWriteWhenUpToDate ==
  [][\A p \in InitCallers :
       /\ init'[p].fullAtStart => init'[p].writes = 0
       /\ (init[p].fullAtStart /\ init[p].pc \notin {"idle", "returned"}
             /\ init'[p] # init[p]) => table' = table]_vars

C16_Witness ==
  \E p \in InitCallers :
    /\ init[p].pc = "returned"
    /\ init[p].fullAtStart
    /\ Len(init[p].columns) = Len(AllColumns)
    /\ ~init[p].caught

----------------------------------------------------------------------------
(* Properties of handleRegistrationSubmission *)

NameOrEmailMissing(body) == ~StrTruthy(body.name) \/ ~StrTruthy(body.email)

\* the request is a POST whose body parses to an object
ParsedBody(req) == req.method = "POST" /\ req.json /\ req.object

\* C17: a POST whose body lacks name or email (missing or empty) is answered
\* 400 "Name and email are required", also when is_speaker is set, with or
\* without a topic; with name and email present, is_speaker truthy and the topic
\* missing or empty, it is answered 400 "Topic is required for speakers".
C17_ValidationOrder ==
  ParsedBody(last.req) =>
    /\ NameOrEmailMissing(last.req.body) =>
         last.resp = Response(400, "Name and email are required")
    /\ (/\ ~NameOrEmailMissing(last.req.body)
        /\ last.req.body.is_speaker
        /\ ~StrTruthy(last.req.body.topic)) =>
         last.resp = Response(400, "Topic is required for speakers")

C17_Witness ==
  /\ ParsedBody(last.req)
  /\ last.req.body.name = "Ana" /\ last.req.body.email = ""
  /\ last.req.body.is_speaker /\ last.req.body.topic = "Talk"
  /\ last.resp.status = 400

\* C18: a request appends exactly one row when, and only when, it is answered
\* 200 with {success:true}; a request answered 400, 405 or 500 leaves the rows
\* as they were.
C18_OneRowIffAccepted ==
  [][/\ accepted' # accepted <=> table' # table
     /\ accepted' # accepted =>
          /\ last'.resp = Response(200, "{success:true}")
          /\ Len(table'.rows) = Len(table.rows) + 1
          /\ \A i \in 1..Len(table.rows) : table'.rows[i] = table.rows[i]
     /\ (last' # last /\ last'.resp.status \in {400, 405, 500}) => table' = table
     /\ last'.resp.status \in {0, 200, 400, 405, 500}]_vars

C18_Witness ==
  /\ last.resp.status = 200
  /\ Len(accepted) = 1
  /\ Len(table.rows) = 1
  /\ table.rows[1].name = last.req.body.name

\* C19: the row of an accepted submission whose is_speaker is falsy has a
\* null topic and a null profile_pic.
C19_NonSpeakerStoredNull ==
  \A i \in 1..Len(accepted) :
    ~accepted[i].is_speaker =>
      /\ table.rows[i].topic = Null
      /\ table.rows[i].profile_pic = Null

\* C20: a POST whose body is not JSON is answered 500, a POST whose INSERT the
\* store fails is answered 500, and no request makes the handler throw.
C20_FailuresAnswered500 ==
  /\ (last.req.method = "POST" /\ ~last.req.json) => last.resp.status = 500
  /\ (ReachesInsert(last.req) /\ ~last.storeOk) => last.resp.status = 500
  /\ ~last.resp.threw

C20_Witness ==
  /\ last.req.method = "POST" /\ ~last.req.json
  /\ last.resp = Response(500, "Server Error")

\* C21: a request to the submission path with a method other than POST is
\* answered 405 Method Not Allowed; its body is not read and the table is left
\* as it was, whether the body is JSON or not and valid or not.
C21_NonPostIs405 ==
  [][(last' # last /\ last'.path = SubmitPath /\ last'.req.method # "POST") =>
        /\ last'.resp = Response(405, "Method Not Allowed")
        /\ ~last'.bodyRead
        /\ table' = table
        /\ accepted' = accepted]_vars

C21_Witness ==
  /\ last.path = SubmitPath
  /\ last.req.method = "PUT"
  /\ last.req.json /\ last.req.body.email = ""
  /\ last.resp.status = 405

----------------------------------------------------------------------------
(* Properties of the request handler and of the stored rows *)

\* the rows of the dispatch table: the page, the updates and the stylesheets
\* with GET, the submission path with any method (it answers 405 itself)
Matched(path, method) ==
  \/ path = SubmitPath
  \/ path \in {"/", UpdatesPath, "/reset.css", "/index.css"} /\ method = "GET"

\* C22: a request that matches no row of the dispatch table is answered 404:
\* an unknown path with any method, and the page, a stylesheet or the updates
\* path with a method other than GET.
C22_UnmatchedIs404 ==
  (last.path # "" /\ ~Matched(last.path, last.req.method)) =>
    last.resp = Response(404, "Not Found")

\* C23: every stored row has a non-empty name and a non-empty email.
C23_RowsHaveNameAndEmail ==
  \A i \in 1..Len(table.rows) :
    /\ StrTruthy(table.rows[i].name)
    /\ StrTruthy(table.rows[i].email)

C23_Witness ==
  /\ table0.exists /\ table0.rows # <<>>
  /\ ~FullColumns(table0)
  /\ Len(table.rows) > Len(table0.rows)
  /\ last.path = "/"
  /\ last.resp.status = 200

\* the columns of a registration the claims speak of
ValueColumns == {"id", "name", "email", "is_speaker", "topic", "profile_pic"}

\* C24: no step removes a row or changes the id, name, email, is_speaker,
\* topic or profile_pic an existing row has: the rows only grow.
C24_RowsOnlyGrow ==
  [][/\ Len(table'.rows) >= Len(table.rows)
     /\ \A i \in 1..Len(table.rows) :
          \A c \in ValueColumns \cap Range(table.columns) :
            /\ c \in DOMAIN table'.rows[i]
            /\ table'.rows[i][c] = table.rows[i][c]]_vars

C24_Witness ==
  /\ table0.exists /\ table0.rows # <<>>
  /\ FullColumns(table)
  /\ Len(table.rows) = Len(table0.rows) + 1
  /\ \E s \in Sessions, k \in TickIds :
       /\ calls[s][k].outcome = "written"
       /\ Len(calls[s][k].ret.value) = Len(table.rows)

\* C26: getAllRegistrations never throws, and a call one of whose statements
\* failed (the PRAGMA, or the SELECT, as on a missing table) returned [].
C26_GetAllNeverThrows ==
  \A s \in Sessions, k \in CallIds :
    calls[s][k].phase = "done" =>
      /\ ~calls[s][k].ret.threw
      /\ calls[s][k].err => calls[s][k].ret.value = <<>>

C26_Witness ==
  \E s \in Sessions :
    /\ ~table.exists
    /\ calls[s][0].phase = "done"
    /\ calls[s][0].err
    /\ 0 \in Range(session[s].fetchOrder)
    /\ calls[s][0].outcome = "written"

\* what the handler does not depend on the store for
AnsweredDespiteFailures ==
  /\ ~last.resp.threw
  /\ (last.path = "/" /\ last.req.method = "GET") =>
       last.resp = Response(200, "HTML_CONTENT")
  /\ (last.path = UpdatesPath /\ last.req.method = "GET") =>
       last.resp = Response(200, "stream")

\* C27 as claimed: whatever statement failed in the request's initializeDatabase
\* or in the session's first getAllRegistrations, the handler did not throw,
\* the page and the stream were answered 200 and the first frame is empty.
C27_ReadPathAbsorbs ==
  /\ AnsweredDespiteFailures
  /\ \A s \in Sessions :
       (FirstFrameWritten(s) /\ (session[s].initFailed \/ calls[s][0].err)) =>
          FirstFrame(s) = <<>>

\* C27 amended: the first frame is empty when a statement of the session's
\* first getAllRegistrations failed (a failure in initializeDatabase alone
\* leaves the frame with the rows getAllRegistrations reads).
C27_ReadPathAbsorbsFetchFailure ==
  /\ AnsweredDespiteFailures
  /\ \A s \in Sessions :
       (FirstFrameWritten(s) /\ calls[s][0].err) => FirstFrame(s) = <<>>

C27_Witness ==
  \E s \in Sessions :
    /\ session[s].initFailed
    /\ FirstFrameWritten(s) /\ calls[s][0].err
    /\ FirstFrame(s) = <<>>
    /\ table.exists /\ table.rows # <<>>
    /\ last.path = UpdatesPath
    /\ last.resp.status = 200

\* C25: in the list getAllRegistrations returns, a row inserted later (it has
\* the larger id) comes before every row inserted earlier.
C25_LaterRowFirst ==
  \A s \in Sessions, k \in CallIds :
    (calls[s][k].phase = "done" /\ ~calls[s][k].err) =>
      \A i, j \in 1..Len(calls[s][k].ret.value) :
        i < j => calls[s][k].ret.value[i].id > calls[s][k].ret.value[j].id

\* C28: a getSpeakers call whose PRAGMA was read from a schema without the
\* topic column or without the is_speaker column (a missing table too) returns
\* [] and throws nothing, and issues no speaker SELECT.
C28_SpeakersEmptyOnOldSchema ==
  (speakers.pc = "returned" /\ speakers.lacked) =>
    /\ speakers.ret = [threw |-> FALSE, value |-> <<>>]
    /\ speakers.selects = 0

C28_Witness ==
  /\ speakers.pc = "returned"
  /\ speakers.lacked
  /\ ~speakers.err
  /\ "topic" \in Range(speakers.columns)
  /\ "is_speaker" \notin Range(speakers.columns)
  /\ table.rows # <<>>

----------------------------------------------------------------------------
(* Properties of the timer of a session *)

\* C29: the timer of a session is armed at most once, and only by the step
\* that wrote the initial frame; the first frame of a session is the initial
\* one, so no tick frame comes before it.
C29_TimerAfterFirstFrame ==
  [][\A s \in Sessions :
       /\ (session'[s].intervalId = "armed" /\ session[s].intervalId # "armed") =>
            /\ session[s].intervalId = "none"
            /\ calls[s][0].phase # "done"
            /\ calls'[s][0].outcome = "written"
       /\ session[s].intervalId # "none" => session'[s].intervalId # "none"
       /\ session'[s].intervalId # "none" => calls'[s][0].outcome = "written"
       /\ session'[s].frames # <<>> => session'[s].frames[1].call = 0]_vars

C29_Witness ==
  \E s \in Sessions :
    /\ session[s].intervalId = "armed"
    /\ Len(session[s].frames) = 3
    /\ session[s].frames[1].call = 0
    /\ session[s].frames[2].call = 2
    /\ session[s].frames[3].call = 1

\* C30: the closed flag is never set while the timer is armed, and a timer
\* callback that ends after the flag was set writes nothing: it attempts no
\* write and leaves the frames, the channel and the flag as they were.
C30_FlagAndTimerTogether ==
  [][\A s \in Sessions :
       /\ session'[s].isClosed => session'[s].intervalId # "armed"
       /\ \A k \in TickIds :
            (/\ session[s].isClosed
             /\ calls[s][k].phase # "done"
             /\ calls'[s][k].phase = "done") =>
              /\ calls'[s][k].outcome = "skipped"
              /\ session'[s].frames = session[s].frames
              /\ session'[s].enqueueCalls = session[s].enqueueCalls
              /\ session'[s].stream = session[s].stream
              /\ session'[s].isClosed
              /\ session'[s].cleanups = session[s].cleanups
              /\ session'[s].unhandled = session[s].unhandled]_vars

C30_Witness ==
  \E s \in Sessions, k \in TickIds :
    /\ session[s].isClosed
    /\ session[s].intervalId = "cleared"
    /\ calls[s][k].phase = "done"
    /\ calls[s][k].outcome = "skipped"
    /\ k \in Range(session[s].fetchOrder)
    /\ ~calls[s][k].err

----------------------------------------------------------------------------
(* Specification: a session whose client goes away.  The timer keeps firing  *)
(* while it is armed and the store answers every statement (with its rows or *)
(* with an error): weak fairness of the firings and of the steps of a call   *)

GoneNext ==
  \/ \E s \in SoloSessions : OpenSession(s)
  \/ \E s \in SoloSessions, k \in CallIds : ExecPragma(s, k)
  \/ \E s \in SoloSessions, k \in CallIds : PragmaReply(s, k)
  \/ \E s \in SoloSessions, k \in CallIds : ExecSelect(s, k)
  \/ \E s \in SoloSessions, k \in CallIds : SelectReply(s, k)
  \/ \E s \in SoloSessions : TimerFire(s)
  \/ \E s \in SoloSessions : ClientDisconnect(s)

\* a step of a getAllRegistrations call of session s: the store executes a
\* statement or its reply resumes the call
StoreStep(s) ==
  \E k \in CallIds :
    ExecPragma(s, k) \/ PragmaReply(s, k) \/ ExecSelect(s, k) \/ SelectReply(s, k)

\* the timer fires while it is armed, and the statements awaited are answered
Progress ==
  \A s \in SoloSessions : WF_vars(TimerFire(s)) /\ WF_vars(StoreStep(s))

SpecGone == Init /\ [][GoneNext]_vars /\ Progress

----------------------------------------------------------------------------
(* Specification: a session whose client stays, while registrations are *)
(* submitted, with a store that fails no statement of the session; the   *)
(* timer fires and the store replies                                     *)

\* the store executes the PRAGMA of call k
PragmaExecuted(s, k) == ExecPragma(s, k) /\ calls'[s][k].res.ok

\* the store executes the SELECT of call k
SelectExecuted(s, k) == ExecSelect(s, k) /\ calls'[s][k].res.ok

FeedNext ==
  \/ \E s \in SoloSessions : OpenSession(s)
  \/ \E s \in SoloSessions, k \in CallIds : PragmaExecuted(s, k)
  \/ \E s \in SoloSessions, k \in CallIds : PragmaReply(s, k)
  \/ \E s \in SoloSessions, k \in CallIds : SelectExecuted(s, k)
  \/ \E s \in SoloSessions, k \in CallIds : SelectReply(s, k)
  \/ \E s \in SoloSessions : TimerFire(s)
  \/ \E req \in LifeRequests(SubmitPath) : AnswerSubmission(req)

SpecFeed == Init /\ [][FeedNext]_vars /\ Progress

----------------------------------------------------------------------------
(* Specification: two sessions on the same table.  Each session is followed *)
(* with one call at a time and one disconnect; the steps of the two         *)
(* sessions interleave freely                                               *)

PairNext ==
  \/ \E s \in Sessions : OpenSession(s)
  \/ \E s \in Sessions, k \in CallIds : ExecPragma(s, k)
  \/ \E s \in Sessions, k \in CallIds : PragmaReply(s, k)
  \/ \E s \in Sessions, k \in CallIds : ExecSelect(s, k)
  \/ \E s \in Sessions, k \in CallIds : SelectReply(s, k)
  \/ \E s \in Sessions : (\A k \in CallIds : ~InFlight(calls[s][k])) /\ TimerFire(s)
  \/ \E s \in Sessions : session[s].cancelSignals = 0 /\ ClientDisconnect(s)

SpecPair == Init /\ [][PairNext]_vars

----------------------------------------------------------------------------
(* Specification: the first getAllRegistrations of a session on a table of *)
(* any age, while a request runs initializeDatabase on it                  *)

RaceNext ==
  \/ \E s \in SoloSessions : OpenSession(s)
  \/ \E s \in SoloSessions : ExecPragma(s, 0)
  \/ \E s \in SoloSessions : PragmaReply(s, 0)
  \/ \E s \in SoloSessions : ExecSelect(s, 0)
  \/ \E s \in SoloSessions : SelectReply(s, 0)
  \/ \E p \in SeqCallers : InitCall(p)
  \/ \E p \in SeqCallers : InitExists(p)
  \/ \E p \in SeqCallers : InitCreate(p)
  \/ \E p \in SeqCallers : InitPragma(p)
  \/ \E p \in SeqCallers : InitAlter(p)

SpecRace == InitDb /\ [][RaceNext]_vars

----------------------------------------------------------------------------
(* Specification: concurrent requests on a missing or an old table, each     *)
(* awaiting its own initializeDatabase; the requests of the submission path *)
(* carry a valid registration                                               *)

ConcSubmitNext ==
  \/ \E p \in InitCallers : Arrive(p)
  \/ \E p \in InitCallers : InitExists(p)
  \/ \E p \in InitCallers : InitCreate(p)
  \/ \E p \in InitCallers : InitPragma(p)
  \/ \E p \in InitCallers : InitAlter(p)
  \/ \E p \in InitCallers, path \in {"/", SubmitPath} :
        \E req \in LifeRequests(path) : HandleRoute(p, path, req)

SpecConcSubmit == InitLife /\ [][ConcSubmitNext]_vars

----------------------------------------------------------------------------
(* The template handler (src/val-template.js, and the earlier handleSSEUpdates *)
(* kept in src/meetup.js): getAllItems is one SELECT in a try, start sends the *)
(* initial frame outside any try, and the timer callback has one try whose     *)
(* catch calls clearInterval and then controller.close().  It has no isClosed  *)
(* flag.  A template session uses the session and calls records.               *)

TemplateColumns == <<"id", "name", "email">>

\* getAllItems: the rows mapped, or [] from its catch
TemplateGetAll(res) ==
  IF res.ok
  THEN [threw |-> FALSE, value |-> MapRows(res.rows, TemplateColumns)]
  ELSE [threw |-> FALSE, value |-> <<>>]

\* start after its await: enqueue, then setInterval; an enqueue that throws
\* rejects start before setInterval
TemplateStartSend(se, frame) ==
  IF CanCloseOrEnqueue(se) THEN StartArm(ControllerEnqueue(se, frame))
  ELSE [ControllerEnqueue(se, frame) EXCEPT !.startPc = "returned"]

\* catch (error) of the timer callback: clearInterval(intervalId), then
\* controller.close(), which throws on a stream that is not readable
TemplateTickCatch(se) ==
  IF CanCloseOrEnqueue(se) THEN ControllerClose(ClearInterval(se))
  ELSE [ClearInterval(se) EXCEPT !.unhandled = @ + 1]

\* the timer callback after its await
TemplateTickSend(se, frame) ==
  IF CanCloseOrEnqueue(se) THEN ControllerEnqueue(se, frame)
  ELSE TemplateTickCatch(ControllerEnqueue(se, frame))

\* GET /api/updates: the stream is created and start sends its SELECT
TemplateOpen(s) ==
  /\ session[s].startPc = "new"
  /\ session' = [session EXCEPT ![s] = [@ EXCEPT !.startPc = "awaiting", !.stream = "readable"]]
  /\ calls' = [calls EXCEPT ![s][0] = [@ EXCEPT !.phase = "select"]]
  /\ UNCHANGED <<table, now, otherVars>>

\* the store executes the SELECT of getAllItems, or fails it
TemplateExecSelect(s, k) ==
  /\ calls[s][k].phase = "select"
  /\ \E ok \in BOOLEAN, p \in SelectOrders(table.rows) :
       calls' = [calls EXCEPT ![s][k] =
                   [@ EXCEPT !.phase = "selectRes",
                             !.res = IF ok THEN SelectRows(table, TemplateColumns, p)
                                     ELSE [ok |-> FALSE, rows |-> <<>>]]]
  /\ session' = [session EXCEPT ![s].fetchOrder = Append(@, k)]
  /\ UNCHANGED <<table, now, otherVars>>

\* getAllItems returns and start or the timer callback goes on
TemplateSelectReply(s, k) ==
  /\ calls[s][k].phase = "selectRes"
  /\ LET r == TemplateGetAll(calls[s][k].res)
         se == session[s]
         se2 == IF k = 0 THEN TemplateStartSend(se, Frame(k, r.value))
                ELSE TemplateTickSend(se, Frame(k, r.value))
     IN /\ session' = [session EXCEPT ![s] = se2]
        /\ calls' = [calls EXCEPT ![s][k] =
                       [@ EXCEPT !.phase = "done", !.err = ~calls[s][k].res.ok, !.ret = r,
                                 !.outcome = IF se2.frames # se.frames THEN "written"
                                             ELSE "writeFailed"]]
  /\ UNCHANGED <<table, now, otherVars>>

\* the interval elapses: the callback sends its SELECT
TemplateTimerFire(s) ==
  /\ session[s].intervalId = "armed"
  /\ session[s].fires < MaxFires
  /\ session' = [session EXCEPT ![s].fires = @ + 1]
  /\ calls' = [calls EXCEPT ![s][session[s].fires + 1] = [@ EXCEPT !.phase = "select"]]
  /\ UNCHANGED <<table, now, otherVars>>

TemplateNext ==
  \/ \E s \in SoloSessions : TemplateOpen(s)
  \/ \E s \in SoloSessions, k \in CallIds : TemplateExecSelect(s, k)
  \/ \E s \in SoloSessions, k \in CallIds : TemplateSelectReply(s, k)
  \/ \E s \in SoloSessions : TemplateTimerFire(s)
  \/ \E s \in SoloSessions : ClientDisconnect(s)
  \/ \E req \in SoloRequests : SubmitRegistration(req)

SpecTemplate == Init /\ [][TemplateNext]_vars

----------------------------------------------------------------------------
(* Specification: the page in a browser.  The connection of an EventSource *)
(* opens, delivers messages and fails at any time; a timer that was set    *)
(* elapses                                                                *)

\* the page is loaded: initEventSource() is called
ClientStart ==
  /\ ~client.started
  /\ client' = InitEventSource([client EXCEPT !.started = TRUE])
  /\ UNCHANGED serverVars

\* the connection of EventSource i is established: onopen
SourceOpen(i) ==
  /\ i \in 1..Len(client.sources)
  /\ client.sources[i].readyState = "CONNECTING"
  /\ client' = [client EXCEPT !.sources[i].readyState = "OPEN", !.status = "Connected"]
  /\ UNCHANGED serverVars

\* a frame with n registrations arrives at EventSource i: onmessage
SourceMessage(i, n) ==
  /\ i \in 1..Len(client.sources)
  /\ client.sources[i].readyState = "OPEN"
  /\ client.sources[i].received < MaxMessages
  /\ client' = [client EXCEPT !.sources[i].received = @ + 1, !.shown = n]
  /\ UNCHANGED serverVars

\* the connection of EventSource i fails: the error event is dispatched
SourceError(i) ==
  /\ i \in 1..Len(client.sources)
  /\ client.sources[i].readyState # "CLOSED"
  /\ client.errors < MaxErrors
  /\ client' = OnError(client, i)
  /\ UNCHANGED serverVars

\* a timer set by onerror elapses: initEventSource()
ReconnectTimer ==
  /\ client.timers > 0
  /\ client' = InitEventSource([client EXCEPT !.timers = @ - 1])
  /\ UNCHANGED serverVars

ClientNext ==
  \/ ClientStart
  \/ \E i \in 1..(MaxErrors + 1) : SourceOpen(i)
  \/ \E i \in 1..(MaxErrors + 1), n \in 0..MaxRows : SourceMessage(i, n)
  \/ \E i \in 1..(MaxErrors + 1) : SourceError(i)
  \/ ReconnectTimer

SpecClient == Init /\ [][ClientNext]_vars /\ WF_vars(ReconnectTimer)

----------------------------------------------------------------------------
(* Properties of a session in the long run *)

\* C31: once the client of a session is gone (while a timer firing is still
\* followed), the session comes to rest: its timer is not armed, start has
\* returned and no getAllRegistrations call of it is awaiting the store.
C31_GoneSessionStopsPolling ==
  \A s \in SoloSessions :
    (session[s].cancelSignals > 0 /\ session[s].fires < MaxFires) ~> Quiescent(s)

C31_Witness ==
  \E s \in Sessions, k \in TickIds :
    /\ session[s].cancelSignals > 0
    /\ ~session[s].closedAtCancel
    /\ calls[s][k].outcome = "writeFailed"
    /\ session[s].intervalId = "cleared"
    /\ Quiescent(s)

\* a frame session s wrote lists the i-th accepted registration
Listed(s, i) ==
  \E f \in 1..Len(session[s].frames) :
    \E j \in 1..Len(session[s].frames[f].registrations) :
      /\ session[s].frames[f].registrations[j].id = i
      /\ session[s].frames[f].registrations[j].name = accepted[i].name
      /\ session[s].frames[f].registrations[j].email = accepted[i].email

\* the store failed a statement of a call of session s
StoreFailed(s) == \E k \in CallIds : calls[s][k].err

\* C32: with a store that fails no statement of the session, a registration
\* whose submission was answered 200, while the session is streaming (its timer
\* armed, a firing still followed), is eventually listed in a frame the session
\* wrote.
C32_EventuallyOnFeed ==
  \A s \in SoloSessions, i \in 1..MaxRows :
    (/\ Len(accepted) >= i
     /\ session[s].intervalId = "armed"
     /\ session[s].fires < MaxFires) ~> Listed(s, i)

C32_Witness ==
  \E s \in Sessions :
    /\ Len(accepted) = 1
    /\ session[s].acceptedAtOpen = 0
    /\ FirstFrameWritten(s) /\ FirstFrame(s) = <<>>
    /\ ~StoreFailed(s)
    /\ session[s].intervalId = "armed"
    /\ Listed(s, 1)

\* the SELECT of call k of session s is answered with rows in this step
Fetched(s, k) ==
  /\ calls[s][k].phase = "select"
  /\ calls'[s][k].phase = "selectRes"
  /\ calls'[s][k].res.ok

\* C33: the SELECT of a call is answered every row the table holds, and the
\* frame a call writes lists exactly the rows its SELECT was answered, in that
\* order, each with the id, name and email of the stored row, whatever the
\* frames before it carried.
C33_FrameIsWholeSnapshot ==
  [][\A s \in Sessions :
       /\ \A k \in CallIds :
            Fetched(s, k) =>
              /\ Len(calls'[s][k].res.rows) = Len(table.rows)
              /\ {calls'[s][k].res.rows[j][1] : j \in 1..Len(table.rows)} = 1..Len(table.rows)
       /\ session'[s].frames # session[s].frames =>
            LET nf == session'[s].frames[Len(session'[s].frames)]
                c == calls[s][nf.call]
                got == IF c.res.ok THEN c.res.rows ELSE <<>>
            IN /\ Len(session'[s].frames) = Len(session[s].frames) + 1
               /\ Len(nf.registrations) = Len(got)
               /\ \A j \in 1..Len(got) :
                    /\ nf.registrations[j].id = got[j][1]
                    /\ nf.registrations[j].name = table.rows[got[j][1]].name
                    /\ nf.registrations[j].email = table.rows[got[j][1]].email]_vars

C33_Witness ==
  \E s \in Sessions :
    /\ Len(session[s].frames) = 3
    /\ Len(session[s].frames[1].registrations) = 0
    /\ Len(session[s].frames[2].registrations) = 1
    /\ Len(session[s].frames[3].registrations) = 1
    /\ session[s].frames[3].registrations = session[s].frames[2].registrations
    /\ ~StoreFailed(s)

----------------------------------------------------------------------------
(* Properties of two sessions *)

\* C34: a step of one session (a reply, a write failure, a close, a timer
\* firing, a disconnect) leaves every other session as it was: its closed
\* flag, its timer, its channel, its frames and its calls.
C34_SessionsShareNothing ==
  [][\A s, t \in Sessions :
       (s # t /\ (session'[s] # session[s] \/ calls'[s] # calls[s])) =>
         /\ session'[t] = session[t]
         /\ calls'[t] = calls[t]]_vars

C34_Witness ==
  \E s, t \in Sessions :
    /\ s # t
    /\ session[s].isClosed
    /\ session[s].cancelSignals = 1
    /\ \E k \in TickIds : calls[s][k].outcome = "writeFailed"
    /\ ~session[t].isClosed
    /\ session[t].intervalId = "armed"
    /\ session[s].fires = 1
    /\ session[t].fires = MaxFires
    /\ Len(session[t].frames) = 1 + MaxFires

----------------------------------------------------------------------------
(* Properties of getAllRegistrations on tables of any age *)

\* the list regs has, for each row of the table, an object with the fields
\* id, name, email and the optional columns among columns, each field with the
\* value of the row's column of that name (is_speaker as a boolean)
MapsEveryRow(regs, columns) ==
  /\ Len(regs) = Len(table.rows)
  /\ \A i \in 1..Len(table.rows) : \E j \in 1..Len(regs) : regs[j].id = table.rows[i].id
  /\ \A j \in 1..Len(regs) :
       LET o == regs[j]
           row == table.rows[o.id]
       IN /\ DOMAIN o = {"id", "name", "email"} \cup ({"is_speaker", "topic", "profile_pic"} \cap Range(columns))
          /\ o.name = row.name
          /\ o.email = row.email
          /\ "is_speaker" \in DOMAIN o => o.is_speaker = (row.is_speaker = 1)
          /\ "topic" \in DOMAIN o => o.topic = row.topic
          /\ "profile_pic" \in DOMAIN o => o.profile_pic = row.profile_pic

\* C35 as claimed: a getAllRegistrations call that has returned gave, for each
\* row, an object with id, name, email and the optional columns its PRAGMA
\* found, with the row's values, also when a column was added between its
\* PRAGMA and its SELECT.
C35_EveryRowMapped ==
  \A s \in Sessions, k \in CallIds :
    calls[s][k].phase = "done" => MapsEveryRow(calls[s][k].ret.value, calls[s][k].columns)

\* C35 amended: the same for a call none of whose statements failed (a call
\* with a failed statement returns the empty list).
C35_EveryRowMappedUnlessFailed ==
  \A s \in Sessions, k \in CallIds :
    (calls[s][k].phase = "done" /\ ~calls[s][k].err) =>
      MapsEveryRow(calls[s][k].ret.value, calls[s][k].columns)

C35_Witness ==
  \E s \in Sessions :
    /\ calls[s][0].phase = "done" /\ ~calls[s][0].err
    /\ calls[s][0].raced
    /\ Len(calls[s][0].ret.value) = 1
    /\ DOMAIN calls[s][0].ret.value[1] = {"id", "name", "email", "is_speaker"}
    /\ calls[s][0].ret.value[1].is_speaker

----------------------------------------------------------------------------
(* Properties of submissions: speakers, and concurrent requests *)

\* C36: every row the submission handler inserted with is_speaker = 1 has a
\* topic that is neither null nor empty.
C36_SpeakerRowsHaveTopic ==
  \A i \in (Len(table0.rows) + 1)..Len(table.rows) :
    table.rows[i].is_speaker = 1 => StrTruthy(table.rows[i].topic)

C36_Witness ==
  /\ Len(table.rows) = 1
  /\ table.rows[1].is_speaker = 1
  /\ table.rows[1].topic = "Talk"
  /\ last.resp.status = 200

\* C37: when the store fails no statement by itself, a POST to the submission
\* path with a valid body is answered 200, also on a table that began with the
\* original columns while other requests run initializeDatabase.
C37_ValidPostAccepted ==
  (/\ last.path = SubmitPath
   /\ ParsedBody(last.req)
   /\ StrTruthy(last.req.body.name) /\ StrTruthy(last.req.body.email)
   /\ last.req.body.is_speaker => StrTruthy(last.req.body.topic)
   /\ last.storeOk
   /\ NoStoreFailure) =>
    last.resp = Response(200, "{success:true}")

----------------------------------------------------------------------------
(* Properties of the template handler *)

\* C38: once the write of a timer callback of a template session has thrown,
\* the timer is cancelled, the channel is closed, no exception has escaped a
\* callback and the failed write is the last write the session attempted.
C38_TemplateWriteFailureContained ==
  \A s \in Sessions :
    (\E k \in TickIds : calls[s][k].outcome = "writeFailed") =>
      /\ session[s].intervalId = "cleared"
      /\ session[s].stream = "closed"
      /\ session[s].unhandled = 0
      /\ session[s].enqueueCalls = Len(session[s].frames) + 1

----------------------------------------------------------------------------
(* Properties of the page's script *)

\* C39: at most one EventSource is not closed at any time; a connection error
\* closes the EventSource it came from and sets exactly one timer, of 3000 ms,
\* in the same step; and after every error a new EventSource is created.
C39_ClientReconnects ==
  /\ [](Cardinality(ActiveSources) <= 1)
  /\ [][client'.errors # client.errors =>
          /\ client'.errors = client.errors + 1
          /\ ActiveSources' = {}
          /\ client'.timers = client.timers + 1
          /\ client'.delays = Append(client.delays, 3000)
          /\ Len(client'.sources) = Len(client.sources)]_vars
  /\ \A n \in 1..MaxErrors :
       (client.errors = n) ~> (Len(client.sources) = n + 1)

C39_Witness ==
  /\ client.errors = MaxErrors
  /\ Len(client.sources) = MaxErrors + 1
  /\ client.sources[MaxErrors + 1].readyState = "OPEN"
  /\ client.sources[1].received > 0
  /\ client.sources[1].readyState = "CLOSED"
  /\ client.timers = 0

====
